---- MODULE Spec2Model ----
(***************************************************************************)
(* RFV segmentation (tarefa_mod31.py): per-customer aggregation of a       *)
(* transaction table, quartile thresholds, A..D classes, RFV code, action  *)
(* lookup and the rendering of one Streamlit run of main().                *)
(*                                                                         *)
(* Conventions of the model                                                *)
(*  - a nullable value (NaT, NaN, None) is a set: {} is the null, {v} the  *)
(*    value v; comparisons with a null are false, as in pandas/numpy;      *)
(*  - an instant is an integer number of ticks, TicksPerDay ticks a day;   *)
(*  - a quantile is stored in quarters (value * Quarto): with fractions    *)
(*    0.25, 0.5, 0.75 linear interpolation of integers is exact there;     *)
(*  - the uploaded table is a bag of rows: the code reads it only through  *)
(*    groupby aggregates (max, nunique, sum), which ignore row order.      *)
(***************************************************************************)
EXTENDS Integers, Sequences, FiniteSets, Bags, TLC

VARIABLES data_file, dia_atual, df_rfv, q_dict, rfv_selection,
          df_selected_rfv, acao_recomendada, rendered, erro, pc

vars == <<data_file, dia_atual, df_rfv, q_dict, rfv_selection,
          df_selected_rfv, acao_recomendada, rendered, erro, pc>>

----------------------------------------------------------------------------
(* Bounds of the explored inputs *)

MaxRows == 2
TicksPerDay == 2
MaxX == 2

Clientes == {1, 2}
Instantes == {0, 1, 2}
DiasAtuais == {1, 2}
Codigos == {1, 2}
Valores == {0, 1}
Limiares == {0, 4}

----------------------------------------------------------------------------
(* Values *)

Quarto == 4

NaN == {}

Val(s) == CHOOSE v \in s : TRUE

Min(S) == CHOOSE v \in S : \A w \in S : v <= w

Max(S) == CHOOSE v \in S : \A w \in S : w <= v

RECURSIVE SortSet(_)
SortSet(S) == IF S = {} THEN <<>> ELSE <<Min(S)>> \o SortSet(S \ {Min(S)})

Insert(x, s) ==
    LET k == Cardinality({i \in 1..Len(s) : s[i] <= x})
    IN SubSeq(s, 1, k) \o <<x>> \o SubSeq(s, k + 1, Len(s))

RECURSIVE sort_values(_)
sort_values(s) == IF s = <<>> THEN <<>> ELSE Insert(Head(s), sort_values(Tail(s)))

----------------------------------------------------------------------------
(* The uploaded table.  The explored tables have 1..MaxRows rows, any subset
   of the required columns, and no null customer, order identifier or amount;
   the only null cells are purchase dates that failed to parse. *)

Colunas == {"ID_cliente", "DiaCompra", "CodigoCompra", "ValorTotal"}

Linhas ==
    [ID_cliente : Clientes,
     DiaCompra : {NaN} \cup {{d} : d \in Instantes},
     CodigoCompra : Codigos,
     ValorTotal : Valores]

Projetar(r, cols) == [c \in cols |-> r[c]]

RECURSIVE BagsOfSize(_, _)
BagsOfSize(S, n) ==
    IF n = 0 THEN {EmptyBag}
    ELSE {b (+) SetToBag({r}) : b \in BagsOfSize(S, n - 1), r \in S}

Tabelas(cols) ==
    UNION {BagsOfSize({Projetar(r, cols) : r \in Linhas}, n) : n \in 1..MaxRows}

Arquivos == UNION {{[columns |-> cols, rows |-> t] : t \in Tabelas(cols)} : cols \in SUBSET Colunas}

----------------------------------------------------------------------------
(* Aggregates: lines 76-97 *)

Grupo(df, c) == {r \in BagToSet(df) : r["ID_cliente"] = c}

GroupKeys(df) == SortSet({r["ID_cliente"] : r \in BagToSet(df)})

(* groupby(...)['DiaCompra'].max(): NaT rows are skipped, a group with no valid
   date keeps its row with NaT. *)
GroupMax(g) ==
    LET validas == UNION {r["DiaCompra"] : r \in g}
    IN IF validas = {} THEN NaN ELSE {Max(validas)}

(* variant: the difference in days truncated toward zero *)
Days_trunc(now, ultima) ==
    IF ultima = NaN THEN NaN
    ELSE IF now >= Val(ultima) THEN {(now - Val(ultima)) \div TicksPerDay}
    ELSE {0 - ((Val(ultima) - now) \div TicksPerDay)}

(* (dia_atual - DiaUltimaCompra).dt.days: floor of the difference in days *)
Days(now, ultima) ==
    IF ultima = NaN THEN NaN ELSE {(now - Val(ultima)) \div TicksPerDay}

(* variant: a group without a valid date loses its row *)
df_recencia_dropna(df, now) ==
    LET ks == SortSet({r["ID_cliente"] : r \in {t \in BagToSet(df) : t["DiaCompra"] # NaN}})
    IN [i \in 1..Len(ks) |->
          LET ultima == GroupMax(Grupo(df, ks[i]))
          IN [ID_cliente |-> ks[i],
              DiaUltimaCompra |-> ultima,
              Recencia |-> Days(now, ultima)]]

df_recencia(df, now) ==
    LET ks == GroupKeys(df)
    IN [i \in 1..Len(ks) |->
          LET ultima == GroupMax(Grupo(df, ks[i]))
          IN [ID_cliente |-> ks[i],
              DiaUltimaCompra |-> ultima,
              Recencia |-> Days(now, ultima)]]

Nunique(g) == Cardinality({r["CodigoCompra"] : r \in g})

(* variant: count() of the rows instead of nunique() of the order ids *)
df_frequencia_count(df) ==
    LET ks == GroupKeys(df)
    IN [i \in 1..Len(ks) |->
          [ID_cliente |-> ks[i],
           Frequencia |-> BagCardinality([r \in Grupo(df, ks[i]) |-> CopiesIn(r, df)])]]

df_frequencia(df) ==
    LET ks == GroupKeys(df)
    IN [i \in 1..Len(ks) |->
          [ID_cliente |-> ks[i], Frequencia |-> Nunique(Grupo(df, ks[i]))]]

RECURSIVE GroupSum(_, _)
GroupSum(g, df) ==
    IF g = {} THEN 0
    ELSE LET r == CHOOSE r \in g : TRUE
         IN CopiesIn(r, df) * r["ValorTotal"] + GroupSum(g \ {r}, df)

(* variant: rows without a valid date are dropped before the sum *)
df_valor_dropna(df) ==
    LET ks == GroupKeys(df)
    IN [i \in 1..Len(ks) |->
          [ID_cliente |-> ks[i],
           Valor |-> GroupSum({r \in Grupo(df, ks[i]) : r["DiaCompra"] # NaN}, df)]]

df_valor(df) ==
    LET ks == GroupKeys(df)
    IN [i \in 1..Len(ks) |->
          [ID_cliente |-> ks[i], Valor |-> GroupSum(Grupo(df, ks[i]), df)]]

(* left.merge(right, on='ID_cliente'): inner join, keys unique on both sides *)
RECURSIVE Merge(_, _)
Merge(left, right) ==
    IF left = <<>> THEN <<>>
    ELSE LET l == Head(left)
             m == {j \in 1..Len(right) : right[j].ID_cliente = l.ID_cliente}
         IN (IF m = {} THEN <<>> ELSE <<l @@ right[Min(m)]>>) \o Merge(Tail(left), right)

Agregar(df, now) == Merge(Merge(df_recencia(df, now), df_frequencia(df)), df_valor(df))

----------------------------------------------------------------------------
(* Quartiles: lines 100-101 *)

Metricas == {"Recencia", "Frequencia", "Valor"}

Fracoes == {25, 50, 75}

(* the non-null values of a column, in row order *)
RECURSIVE Dropna(_)
Dropna(col) ==
    IF col = <<>> THEN <<>>
    ELSE (IF Head(col) = NaN THEN <<>> ELSE <<Val(Head(col))>>) \o Dropna(Tail(col))

Coluna(tab, m) ==
    [i \in 1..Len(tab) |-> IF m = "Recencia" THEN tab[i].Recencia ELSE {tab[i][m]}]

(* variant: interpolation over the column as it stands, not sorted *)
quantile_unsorted(col, p) ==
    LET a == Dropna(col)
        n == Len(a)
        h == (n - 1) * (p \div 25)
        i == h \div Quarto + 1
        f == h % Quarto
    IN IF n = 0 THEN NaN
       ELSE {Quarto * a[i] + (IF f = 0 THEN 0 ELSE (a[i + 1] - a[i]) * f)}

(* Series.quantile(p / 100), linear interpolation, in quarters; NaN when the
   column has no value *)
quantile(col, p) ==
    LET a == sort_values(Dropna(col))
        n == Len(a)
        h == (n - 1) * (p \div 25)
        i == h \div Quarto + 1
        f == h % Quarto
    IN IF n = 0 THEN NaN
       ELSE {Quarto * a[i] + (IF f = 0 THEN 0 ELSE (a[i + 1] - a[i]) * f)}

Quartis(tab) == [m \in Metricas |-> [p \in Fracoes |-> quantile(Coluna(tab, m), p)]]

----------------------------------------------------------------------------
(* Classes: lines 30-49 and 104-110 *)

Classes == {"A", "B", "C", "D"}

(* x <= q for a value x and a quantile q in quarters; false when either is null *)
Leq(x, q) == x # NaN /\ q # NaN /\ Quarto * Val(x) <= Val(q)

(* variant: strict comparisons *)
Lt(x, q) == x # NaN /\ q # NaN /\ Quarto * Val(x) < Val(q)

recencia_class_strict(x, q) ==
    IF Lt(x, q["Recencia"][25]) THEN "A"
    ELSE IF Lt(x, q["Recencia"][50]) THEN "B"
    ELSE IF Lt(x, q["Recencia"][75]) THEN "C"
    ELSE "D"

recencia_class(x, q) ==
    IF Leq(x, q["Recencia"][25]) THEN "A"
    ELSE IF Leq(x, q["Recencia"][50]) THEN "B"
    ELSE IF Leq(x, q["Recencia"][75]) THEN "C"
    ELSE "D"

freq_val_class(x, fv, q) ==
    IF Leq(x, q[fv][25]) THEN "D"
    ELSE IF Leq(x, q[fv][50]) THEN "C"
    ELSE IF Leq(x, q[fv][75]) THEN "B"
    ELSE "A"

ClasseR(row, q) == recencia_class(row.Recencia, q)

ClasseF(row, q) == freq_val_class({row.Frequencia}, "Frequencia", q)

(* variant: the Frequencia thresholds are used for Valor *)
ClasseV_freq(row, q) == freq_val_class({row.Valor}, "Frequencia", q)

ClasseV(row, q) == freq_val_class({row.Valor}, "Valor", q)

Classificar(tab, q) ==
    [i \in 1..Len(tab) |->
        LET r == ClasseR(tab[i], q)
            f == ClasseF(tab[i], q)
            v == ClasseV(tab[i], q)
        IN tab[i] @@ [R |-> r, F |-> f, V |-> v, RFV |-> r \o f \o v]]

----------------------------------------------------------------------------
(* Marketing actions: lines 113-123 *)

(* variant: one entry of the dictionary is missing *)
action_dict_sem_CCD ==
    [c \in {"AAA", "AAB", "ABB", "BBB", "BBC", "CCC", "DDD"} |->
        CASE c = "AAA" -> "Clientes VIP: foco em retencao e programas de fidelidade"
          [] c = "AAB" -> "Clientes importantes: mantenha o relacionamento ativo"
          [] c = "ABB" -> "Clientes em crescimento: ofereca incentivos"
          [] c = "BBB" -> "Clientes comuns: monitore e ofereca promocoes"
          [] c = "BBC" -> "Clientes em recuperacao: crie campanhas de reativacao"
          [] c = "CCC" -> "Clientes de risco: considere reativacao ou incentivo"
          [] c = "DDD" -> "Clientes perdidos: analise de feedback e retencao"]

action_dict ==
    [c \in {"AAA", "AAB", "ABB", "BBB", "BBC", "CCC", "CCD", "DDD"} |->
        CASE c = "AAA" -> "Clientes VIP: foco em retencao e programas de fidelidade"
          [] c = "AAB" -> "Clientes importantes: mantenha o relacionamento ativo"
          [] c = "ABB" -> "Clientes em crescimento: ofereca incentivos"
          [] c = "BBB" -> "Clientes comuns: monitore e ofereca promocoes"
          [] c = "BBC" -> "Clientes em recuperacao: crie campanhas de reativacao"
          [] c = "CCC" -> "Clientes de risco: considere reativacao ou incentivo"
          [] c = "CCD" -> "Clientes inativos: campanhas de reativacao especificas"
          [] c = "DDD" -> "Clientes perdidos: analise de feedback e retencao"]

(* Series.map(dict): a key the dict lacks maps to NaN *)
MapAction(code) == IF code \in DOMAIN action_dict THEN {action_dict[code]} ELSE NaN

MapearAcao(tab) == [i \in 1..Len(tab) |-> tab[i] @@ [Acao |-> MapAction(tab[i].RFV)]]

(* action_dict.get(rfv_selection, 'Acao nao encontrada') *)
AcaoRecomendada(sel) ==
    IF sel \in DOMAIN action_dict THEN action_dict[sel] ELSE "Acao nao encontrada"

----------------------------------------------------------------------------
(* Selection and filter: lines 126-131 *)

(* sorted(df_rfv['RFV'].unique()): the codes are ordered by their letters *)
Rank(c) == CASE c = "A" -> 1 [] c = "B" -> 2 [] c = "C" -> 3 [] c = "D" -> 4

Codigo(r) == 16 * Rank(r.R) + 4 * Rank(r.F) + Rank(r.V)

(* variant: the selectbox offers the keys of the dictionary *)
Opcoes_dict(tab) == <<"AAA", "AAB", "ABB", "BBB", "BBC", "CCC", "CCD", "DDD">>

Opcoes(tab) ==
    LET ks == SortSet({Codigo(tab[i]) : i \in 1..Len(tab)})
    IN [j \in 1..Len(ks) |->
          LET i == CHOOSE i \in 1..Len(tab) : Codigo(tab[i]) = ks[j] IN tab[i].RFV]

Range(s) == {s[i] : i \in 1..Len(s)}

IsIn(v, s) == v \in Range(s)

Filtrar(tab, sel) == SelectSeq(tab, LAMBDA r : r.RFV = sel)

----------------------------------------------------------------------------
(* One run of main(): lines 71-182.  Etapas lists the statements in source
   order with the columns each one reads (in the order it reads them) and the
   elements it renders; the first statement that reads a column the table
   lacks raises, the handler at line 181 reports the error, and what was
   rendered before stays on the page. *)

(* variant: the Valor aggregate is computed only when the counts are shown *)
Etapas_tardia ==
    << [linha |-> 76,  usa |-> <<"DiaCompra">>,                  mostra |-> <<>>],
       [linha |-> 81,  usa |-> <<"ID_cliente", "DiaCompra">>,    mostra |-> <<>>],
       [linha |-> 88,  usa |-> <<"ID_cliente", "CodigoCompra">>, mostra |-> <<>>],
       [linha |-> 126, usa |-> <<>>, mostra |-> <<"selectbox">>],
       [linha |-> 133, usa |-> <<>>, mostra |-> <<"titulo_grupo">>],
       [linha |-> 134, usa |-> <<>>, mostra |-> <<"acao_recomendada">>],
       [linha |-> 136, usa |-> <<>>, mostra |-> <<"tabela_segmento">>],
       [linha |-> 92,  usa |-> <<"ID_cliente", "ValorTotal">>,   mostra |-> <<>>],
       [linha |-> 140, usa |-> <<>>, mostra |-> <<"histogramas">>],
       [linha |-> 163, usa |-> <<>>, mostra |-> <<"download_csv">>],
       [linha |-> 167, usa |-> <<>>, mostra |-> <<"contagem_acoes">>],
       [linha |-> 174, usa |-> <<>>, mostra |-> <<"grafico_acoes">>] >>

Etapas ==
    << [linha |-> 76,  usa |-> <<"DiaCompra">>,                  mostra |-> <<>>],
       [linha |-> 81,  usa |-> <<"ID_cliente", "DiaCompra">>,    mostra |-> <<>>],
       [linha |-> 88,  usa |-> <<"ID_cliente", "CodigoCompra">>, mostra |-> <<>>],
       [linha |-> 92,  usa |-> <<"ID_cliente", "ValorTotal">>,   mostra |-> <<>>],
       [linha |-> 96,  usa |-> <<>>, mostra |-> <<>>],
       [linha |-> 100, usa |-> <<>>, mostra |-> <<>>],
       [linha |-> 104, usa |-> <<>>, mostra |-> <<>>],
       [linha |-> 123, usa |-> <<>>, mostra |-> <<>>],
       [linha |-> 126, usa |-> <<>>, mostra |-> <<"selectbox">>],
       [linha |-> 133, usa |-> <<>>, mostra |-> <<"titulo_grupo">>],
       [linha |-> 134, usa |-> <<>>, mostra |-> <<"acao_recomendada">>],
       [linha |-> 136, usa |-> <<>>, mostra |-> <<"tabela_segmento">>],
       [linha |-> 140, usa |-> <<>>, mostra |-> <<"histogramas">>],
       [linha |-> 163, usa |-> <<>>, mostra |-> <<"download_csv">>],
       [linha |-> 167, usa |-> <<>>, mostra |-> <<"contagem_acoes">>],
       [linha |-> 174, usa |-> <<>>, mostra |-> <<"grafico_acoes">>] >>

Faltam(e, cols) == {j \in 1..Len(e.usa) : e.usa[j] \notin cols}

(* index of the first statement that raises, 0 when none does *)
PrimeiraFalha(cols) ==
    LET ruins == {k \in 1..Len(Etapas) : Faltam(Etapas[k], cols) # {}}
    IN IF ruins = {} THEN 0 ELSE Min(ruins)

RECURSIVE Mostrado(_)
Mostrado(k) == IF k = 0 THEN <<>> ELSE Mostrado(k - 1) \o Etapas[k].mostra

Renderizar(cols) ==
    LET k == PrimeiraFalha(cols)
    IN IF k = 0 THEN Mostrado(Len(Etapas)) ELSE Mostrado(k - 1) \o <<"erro">>

(* the KeyError / AttributeError names the column *)
Excecao(cols) ==
    LET k == PrimeiraFalha(cols)
    IN IF k = 0 THEN "" ELSE Etapas[k].usa[Min(Faltam(Etapas[k], cols))]

QVazio == [m \in Metricas |-> [p \in Fracoes |-> NaN]]

(* st.sidebar.selectbox(label, options): the option the user picked while it
   is still offered, the first option otherwise, None without options *)
selectbox(ops, escolha) ==
    IF ops = <<>> THEN "" ELSE IF IsIn(escolha, ops) THEN escolha ELSE ops[1]

main(file, now, escolha) ==
    IF PrimeiraFalha(file.columns) # 0
    THEN [df_rfv |-> <<>>, q_dict |-> QVazio, rfv_selection |-> "",
          df_selected_rfv |-> <<>>, acao_recomendada |-> "",
          rendered |-> Renderizar(file.columns), erro |-> Excecao(file.columns)]
    ELSE LET agg == Agregar(file.rows, now)
             q == Quartis(agg)
             tab == MapearAcao(Classificar(agg, q))
             sel == selectbox(Opcoes(tab), escolha)
         IN [df_rfv |-> tab, q_dict |-> q, rfv_selection |-> sel,
             df_selected_rfv |-> Filtrar(tab, sel),
             acao_recomendada |-> AcaoRecomendada(sel),
             rendered |-> Renderizar(file.columns), erro |-> ""]

----------------------------------------------------------------------------
(* The session: an upload or a change of the selectbox reruns main() *)

Publicar(file, now, escolha) ==
    LET out == main(file, now, escolha)
    IN /\ data_file' = {file}
       /\ dia_atual' = now
       /\ df_rfv' = out.df_rfv
       /\ q_dict' = out.q_dict
       /\ rfv_selection' = out.rfv_selection
       /\ df_selected_rfv' = out.df_selected_rfv
       /\ acao_recomendada' = out.acao_recomendada
       /\ rendered' = out.rendered
       /\ erro' = out.erro
       /\ pc' = "main"

Init ==
    /\ data_file = {}
    /\ dia_atual = 0
    /\ df_rfv = <<>>
    /\ q_dict = QVazio
    /\ rfv_selection = ""
    /\ df_selected_rfv = <<>>
    /\ acao_recomendada = ""
    /\ rendered = <<>>
    /\ erro = ""
    /\ pc = "main"

(* a file is uploaded: the selectbox is new, nothing is picked yet *)
Upload ==
    /\ data_file = {}
    /\ \E file \in Arquivos, now \in DiasAtuais :
          Publicar(file, now, "")

(* the user picks a segment: the script reruns with that selection, which the
   selectbox keeps while it is still one of its options *)
Select ==
    /\ data_file # {}
    /\ erro = ""
    /\ \E sel \in Range(Opcoes(df_rfv)), now \in DiasAtuais :
          /\ now >= dia_atual
          /\ Publicar(Val(data_file), now, sel)

(* the file is removed from the uploader: the rerun finds data_file None and
   renders nothing *)
Remove ==
    /\ data_file # {}
    /\ data_file' = {}
    /\ dia_atual' = 0
    /\ df_rfv' = <<>>
    /\ q_dict' = QVazio
    /\ rfv_selection' = ""
    /\ df_selected_rfv' = <<>>
    /\ acao_recomendada' = ""
    /\ rendered' = <<>>
    /\ erro' = ""
    /\ pc' = "main"

Next == Upload \/ Select \/ Remove

Spec == Init /\ [][Next]_vars

----------------------------------------------------------------------------
(* The classification and the lookup as functions: a one-row table and a
   dictionary of thresholds are drawn, then lines 104-110 and 123-135 are
   applied to them. *)

Medidas == 0..MaxX

Cortes == [Fracoes -> {{l} : l \in Limiares}]

InitFn ==
    /\ data_file = {}
    /\ dia_atual = 0
    /\ \E xr \in {NaN} \cup {{x} : x \in Medidas}, xf \in Medidas, xv \in Medidas :
          df_rfv = <<[ID_cliente |-> 1, Recencia |-> xr, Frequencia |-> xf, Valor |-> xv]>>
    /\ q_dict \in [Metricas -> Cortes]
    /\ rfv_selection = ""
    /\ df_selected_rfv = <<>>
    /\ acao_recomendada = ""
    /\ rendered = <<>>
    /\ erro = ""
    /\ pc = "quartis"

ClassificarFn ==
    /\ pc = "quartis"
    /\ df_rfv' = Classificar(df_rfv, q_dict)
    /\ pc' = "classes"
    /\ UNCHANGED <<data_file, dia_atual, q_dict, rfv_selection, df_selected_rfv,
                   acao_recomendada, rendered, erro>>

AcaoFn ==
    /\ pc = "classes"
    /\ LET tab == MapearAcao(df_rfv)
           sel == selectbox(Opcoes(tab), "")
       IN /\ df_rfv' = tab
          /\ rfv_selection' = sel
          /\ df_selected_rfv' = Filtrar(tab, sel)
          /\ acao_recomendada' = AcaoRecomendada(sel)
    /\ pc' = "acoes"
    /\ UNCHANGED <<data_file, dia_atual, q_dict, rendered, erro>>

NextFn == ClassificarFn \/ AcaoFn

SpecFn == InitFn /\ [][NextFn]_vars

----------------------------------------------------------------------------
(* Properties *)

(* a run of main() on an uploaded table went through without an exception *)
Carregado == data_file # {} /\ erro = "" /\ pc = "main"

Compras == Val(data_file).rows

LinhasDe(c) == {r \in BagToSet(Compras) : r["ID_cliente"] = c}

IndicesDe(c) == {i \in 1..Len(df_rfv) : df_rfv[i].ID_cliente = c}

SoDatasNulas(c) == LinhasDe(c) # {} /\ \A r \in LinhasDe(c) : r["DiaCompra"] = NaN

DatasValidas(c) == {d \in Instantes : \E r \in LinhasDe(c) : r["DiaCompra"] = {d}}

(* C1, as stated: a customer whose rows all have a null purchase date has no
   row in the final table, and no row of the final table has an undefined
   Recency. *)
C1_SemDataDescartado ==
    Carregado =>
        /\ \A c \in Clientes : SoDatasNulas(c) => IndicesDe(c) = {}
        /\ \A i \in 1..Len(df_rfv) : df_rfv[i].Recencia # NaN

(* C1, amended: a customer whose rows all have a null purchase date is kept by
   the join: the final table has exactly one row for that customer, with an
   undefined last purchase date and an undefined Recency, classified R = D;
   the rows with an undefined Recency are exactly those customers. *)
C1_SemDataMantido ==
    Carregado =>
        /\ \A c \in Clientes : SoDatasNulas(c) =>
              /\ Cardinality(IndicesDe(c)) = 1
              /\ \A i \in IndicesDe(c) :
                    /\ df_rfv[i].DiaUltimaCompra = NaN
                    /\ df_rfv[i].Recencia = NaN
                    /\ df_rfv[i].R = "D"
        /\ \A i \in 1..Len(df_rfv) :
              df_rfv[i].Recencia = NaN => SoDatasNulas(df_rfv[i].ID_cliente)

C1_Witness ==
    /\ Carregado
    /\ \E c \in Clientes, d \in Clientes :
          /\ SoDatasNulas(c)
          /\ IndicesDe(c) # {}
          /\ DatasValidas(d) # {}

(* C2, as stated: every row of the final table whose last purchase date is a
   valid date has Recency >= 0. *)
C2_RecenciaNaoNegativa ==
    Carregado =>
        \A i \in 1..Len(df_rfv) :
            df_rfv[i].DiaUltimaCompra # NaN =>
                df_rfv[i].Recencia # NaN /\ Val(df_rfv[i].Recencia) >= 0

(* C2, amended: for every row of the final table whose last purchase date is a
   valid date, Recency is the whole number of days (floor) from that date to
   the computation instant; it is >= 0 when the date is not later than the
   computation instant and negative when the date is later. *)
C2_RecenciaDiasInteiros ==
    Carregado =>
        \A i \in 1..Len(df_rfv) :
            df_rfv[i].DiaUltimaCompra # NaN =>
                LET d == Val(df_rfv[i].DiaUltimaCompra)
                    rec == Val(df_rfv[i].Recencia)
                IN /\ df_rfv[i].Recencia # NaN
                   /\ d = Max(DatasValidas(df_rfv[i].ID_cliente))
                   /\ TicksPerDay * rec <= dia_atual - d
                   /\ dia_atual - d < TicksPerDay * (rec + 1)
                   /\ (d <= dia_atual => rec >= 0)
                   /\ (d > dia_atual => rec < 0)

C2_Witness ==
    /\ Carregado
    /\ \E i \in 1..Len(df_rfv) :
          /\ df_rfv[i].DiaUltimaCompra # NaN
          /\ Val(df_rfv[i].DiaUltimaCompra) < dia_atual
          /\ Val(df_rfv[i].Recencia) >= 0

Resultados ==
    {"selectbox", "titulo_grupo", "acao_recomendada", "tabela_segmento",
     "histogramas", "download_csv", "contagem_acoes", "grafico_acoes"}

(* C3: when the uploaded table lacks a required column the run reports an
   error and renders no part of the result before it: no selectbox, segment
   table, recommended action, chart, download button or action counts. *)
C3_ColunaAusenteSoErro ==
    (data_file # {} /\ Val(data_file).columns # Colunas) =>
        /\ erro # ""
        /\ erro \in Colunas \ Val(data_file).columns
        /\ rendered # <<>>
        /\ rendered[Len(rendered)] = "erro"
        /\ \A i \in 1..Len(rendered) : rendered[i] \notin Resultados
        /\ df_rfv = <<>> /\ df_selected_rfv = <<>> /\ acao_recomendada = ""

C3_Witness ==
    /\ data_file # {}
    /\ Val(data_file).columns = Colunas \ {"ValorTotal"}
    /\ erro = "ValorTotal"
    /\ rendered = <<"erro">>

Curadas == {"AAA", "AAB", "ABB", "BBB", "BBC", "CCC", "CCD", "DDD"}

TodosCodigos == {a \o b \o c : a \in Classes, b \in Classes, c \in Classes}

Texto(c) ==
    CASE c = "AAA" -> "Clientes VIP: foco em retencao e programas de fidelidade"
      [] c = "AAB" -> "Clientes importantes: mantenha o relacionamento ativo"
      [] c = "ABB" -> "Clientes em crescimento: ofereca incentivos"
      [] c = "BBB" -> "Clientes comuns: monitore e ofereca promocoes"
      [] c = "BBC" -> "Clientes em recuperacao: crie campanhas de reativacao"
      [] c = "CCC" -> "Clientes de risco: considere reativacao ou incentivo"
      [] c = "CCD" -> "Clientes inativos: campanhas de reativacao especificas"
      [] c = "DDD" -> "Clientes perdidos: analise de feedback e retencao"

(* C4: the action lookup is total over the 64 codes: the 8 curated codes give
   their action string, in the action column and as the recommended action of
   the selected segment; each of the other 56 gives a missing value in the
   column and 'Acao nao encontrada' for the selected segment. *)
C4_LookupTotal ==
    /\ Cardinality(TodosCodigos) = 64
    /\ Cardinality(TodosCodigos \ Curadas) = 56
    /\ \A c \in TodosCodigos :
          IF c \in Curadas
          THEN MapAction(c) = {Texto(c)} /\ AcaoRecomendada(c) = Texto(c)
          ELSE MapAction(c) = NaN /\ AcaoRecomendada(c) = "Acao nao encontrada"
    /\ pc = "acoes" =>
          LET r == df_rfv[1]
          IN /\ r.RFV \in TodosCodigos
             /\ rfv_selection = r.RFV
             /\ IF r.RFV \in Curadas
                THEN r.Acao = {Texto(r.RFV)} /\ acao_recomendada = Texto(r.RFV)
                ELSE r.Acao = NaN /\ acao_recomendada = "Acao nao encontrada"

C4_Witness ==
    /\ pc = "acoes"
    /\ df_rfv[1].RFV = "ABD"
    /\ df_rfv[1].Acao = NaN
    /\ acao_recomendada = "Acao nao encontrada"

(* x <= p for a defined value x and a defined threshold p in quarters *)
Ate(x, p) == Quarto * x <= Val(p)

(* C5: recencia_class gives A if x <= p25, otherwise B if x <= p50, otherwise
   C if x <= p75, otherwise D: exactly one label, and a value equal to a
   threshold gets the better class. *)
C5_RecenciaClasse ==
    (pc \in {"classes", "acoes"} /\ df_rfv[1].Recencia # NaN) =>
        LET x == Val(df_rfv[1].Recencia)
            p == q_dict["Recencia"]
            r == df_rfv[1].R
        IN /\ r \in Classes
           /\ (r = "A") <=> Ate(x, p[25])
           /\ (r = "B") <=> (~Ate(x, p[25]) /\ Ate(x, p[50]))
           /\ (r = "C") <=> (~Ate(x, p[25]) /\ ~Ate(x, p[50]) /\ Ate(x, p[75]))
           /\ (r = "D") <=> (~Ate(x, p[25]) /\ ~Ate(x, p[50]) /\ ~Ate(x, p[75]))

C5_Witness ==
    /\ pc = "classes"
    /\ df_rfv[1].Recencia # NaN
    /\ Quarto * Val(df_rfv[1].Recencia) = Val(q_dict["Recencia"][50])
    /\ Quarto * Val(df_rfv[1].Recencia) > Val(q_dict["Recencia"][25])
    /\ df_rfv[1].R = "B"

FVEsperada(x, p) ==
    IF Ate(x, p[25]) THEN "D"
    ELSE IF Ate(x, p[50]) THEN "C"
    ELSE IF Ate(x, p[75]) THEN "B"
    ELSE "A"

(* C6: freq_val_class gives D if x <= p25, otherwise C if x <= p50, otherwise
   B if x <= p75, otherwise A; a value equal to p25 is D; Frequencia is
   classified with the Frequencia thresholds and Valor with the Valor ones. *)
C6_FreqValClasse ==
    pc \in {"classes", "acoes"} =>
        LET row == df_rfv[1]
        IN /\ row.F = FVEsperada(row.Frequencia, q_dict["Frequencia"])
           /\ row.V = FVEsperada(row.Valor, q_dict["Valor"])
           /\ (Quarto * row.Frequencia = Val(q_dict["Frequencia"][25]) => row.F = "D")
           /\ (Quarto * row.Valor = Val(q_dict["Valor"][25]) => row.V = "D")

C6_Witness ==
    /\ pc = "classes"
    /\ Quarto * df_rfv[1].Valor = Val(q_dict["Valor"][25])
    /\ Quarto * df_rfv[1].Valor > Val(q_dict["Frequencia"][75])
    /\ df_rfv[1].Frequencia = df_rfv[1].Valor
    /\ df_rfv[1].V = "D"
    /\ df_rfv[1].F = "A"

(* the customer's rows, with their multiplicity *)
BagDe(c) == [r \in LinhasDe(c) |-> CopiesIn(r, Compras)]

(* C7: Frequency is the number of distinct purchase-order identifiers among
   the customer's rows, not the number of rows. *)
C7_FrequenciaDistintos ==
    Carregado =>
        \A i \in 1..Len(df_rfv) :
            LET c == df_rfv[i].ID_cliente
            IN /\ \A k \in Codigos :
                    (\E r \in LinhasDe(c) : r["CodigoCompra"] = k)
                        => df_rfv[i].Frequencia >= 1
               /\ \E f \in [1..df_rfv[i].Frequencia -> Codigos] :
                    /\ \A a, b \in DOMAIN f : a # b => f[a] # f[b]
                    /\ \A r \in LinhasDe(c) : \E a \in DOMAIN f : f[a] = r["CodigoCompra"]
                    /\ \A a \in DOMAIN f : \E r \in LinhasDe(c) : r["CodigoCompra"] = f[a]

C7_Witness ==
    /\ Carregado
    /\ \E i \in 1..Len(df_rfv) :
          /\ BagCardinality(BagDe(df_rfv[i].ID_cliente)) = 2
          /\ df_rfv[i].Frequencia = 1

RECURSIVE SomaPorValor(_, _)
SomaPorValor(vs, c) ==
    IF vs = {} THEN 0
    ELSE LET v == Max(vs)
         IN v * BagCardinality([r \in {t \in LinhasDe(c) : t["ValorTotal"] = v}
                                   |-> CopiesIn(r, Compras)])
            + SomaPorValor(vs \ {v}, c)

(* C8: a row with a null purchase date is left out of the recency input only:
   Value is the sum of the amounts of all the customer's rows, null-dated
   ones included, and the last purchase date is the maximum over the rows
   with a valid date. *)
C8_ValorTodasLinhas ==
    Carregado =>
        \A i \in 1..Len(df_rfv) :
            LET c == df_rfv[i].ID_cliente
            IN /\ df_rfv[i].Valor = SomaPorValor({r["ValorTotal"] : r \in LinhasDe(c)}, c)
               /\ IF DatasValidas(c) = {}
                  THEN df_rfv[i].DiaUltimaCompra = NaN
                  ELSE /\ df_rfv[i].DiaUltimaCompra # NaN
                       /\ Val(df_rfv[i].DiaUltimaCompra) \in DatasValidas(c)
                       /\ \A d \in DatasValidas(c) : d <= Val(df_rfv[i].DiaUltimaCompra)

C8_Witness ==
    /\ Carregado
    /\ \E i \in 1..Len(df_rfv) :
          /\ \E r \in LinhasDe(df_rfv[i].ID_cliente) :
                r["DiaCompra"] = NaN /\ r["ValorTotal"] = 1
          /\ \E r \in LinhasDe(df_rfv[i].ID_cliente) :
                r["DiaCompra"] # NaN /\ r["ValorTotal"] = 1
          /\ df_rfv[i].Valor = 2
          /\ df_rfv[i].DiaUltimaCompra # NaN

(* C9: when the final table is not empty the selected segment is a code of
   the table, the filtered table is not empty and holds exactly the rows with
   that code, and the recommended action is the action of every such row,
   'Acao nao encontrada' exactly when those rows have no action. *)
C9_SelecaoNaTabela ==
    (Carregado /\ df_rfv # <<>>) =>
        /\ \E i \in 1..Len(df_rfv) : df_rfv[i].RFV = rfv_selection
        /\ df_selected_rfv # <<>>
        /\ \A j \in 1..Len(df_selected_rfv) :
              /\ df_selected_rfv[j].RFV = rfv_selection
              /\ \E i \in 1..Len(df_rfv) : df_rfv[i] = df_selected_rfv[j]
        /\ Len(df_selected_rfv)
              = Cardinality({i \in 1..Len(df_rfv) : df_rfv[i].RFV = rfv_selection})
        /\ \A j \in 1..Len(df_selected_rfv) :
              /\ df_selected_rfv[j].Acao # NaN
                    => acao_recomendada = Val(df_selected_rfv[j].Acao)
              /\ (df_selected_rfv[j].Acao = NaN)
                    <=> (acao_recomendada = "Acao nao encontrada")

C9_Witness ==
    /\ Carregado
    /\ Len(df_rfv) = 2
    /\ Len(df_selected_rfv) = 1
    /\ rfv_selection = df_rfv[2].RFV
    /\ df_selected_rfv[1].Acao # NaN

Definidas == {i \in 1..Len(df_rfv) : df_rfv[i].Recencia # NaN}

(* C10: for a non-empty final table with at least one defined Recency the
   thresholds of each metric satisfy p25 <= p50 <= p75, a customer with the
   smallest Recency has R = A, one with the smallest Frequency has F = D, one
   with the smallest Value has V = D; when all customers share the value of a
   metric all get A (Recency) or D (Frequency, Value). *)
C10_MenorValor ==
    (Carregado /\ df_rfv # <<>> /\ Definidas # {}) =>
        /\ \A m \in Metricas :
              /\ \A p \in Fracoes : q_dict[m][p] # NaN
              /\ Val(q_dict[m][25]) <= Val(q_dict[m][50])
              /\ Val(q_dict[m][50]) <= Val(q_dict[m][75])
        /\ \A i \in Definidas :
              (\A j \in Definidas : Val(df_rfv[i].Recencia) <= Val(df_rfv[j].Recencia))
                  => df_rfv[i].R = "A"
        /\ \A i \in 1..Len(df_rfv) :
              /\ (\A j \in 1..Len(df_rfv) : df_rfv[i].Frequencia <= df_rfv[j].Frequencia)
                    => df_rfv[i].F = "D"
              /\ (\A j \in 1..Len(df_rfv) : df_rfv[i].Valor <= df_rfv[j].Valor)
                    => df_rfv[i].V = "D"

C10_Witness ==
    /\ Carregado
    /\ Len(df_rfv) = 2
    /\ Definidas = {1, 2}
    /\ Val(df_rfv[1].Recencia) > Val(df_rfv[2].Recencia)
    /\ df_rfv[1].Frequencia = df_rfv[2].Frequencia
    /\ df_rfv[1].Valor < df_rfv[2].Valor
    /\ df_rfv[2].R = "A" /\ df_rfv[1].R = "D"
    /\ df_rfv[1].F = "D" /\ df_rfv[2].F = "D"
    /\ df_rfv[1].V = "D" /\ df_rfv[2].V = "A"

====
